---------------------------- MODULE Spec2Model ----------------------------
(***************************************************************************)
(* A model of the PDF acquisition and processing pipeline:                 *)
(*   - src/pdf-processor-directory.py : MongoDBHandler and PDFProcessor,   *)
(*     run by several workers against one MongoDB database;                *)
(*   - src/pdf-downloader.py and src/pdf_downloader.py : download_pdf.     *)
(* Text is a sequence of one-character strings, a filename too.            *)
(***************************************************************************)
EXTENDS Integers, Sequences, FiniteSets, TLC

VARIABLES
    input_dir,          \* the input directory: [exists, listing]
    documents,          \* db.documents: a sequence of Documents, _id = index
    processing_status,  \* db.processing_status: filename -> <<>> or <<record>>
    errors,             \* db.errors: a sequence of error documents
    clock,              \* datetime.now(): advances after each status-tracking write
    faults,             \* failures the environment has injected so far
    wk,                 \* per worker: position and locals of process_directory
    dl,                 \* one call of download_pdf: position, locals, requests, file
    rk                  \* one call of _extract_keywords: arguments, position, result

storeVars == <<input_dir, documents, processing_status, errors, clock, faults, wk>>

vars == <<input_dir, documents, processing_status, errors, clock, faults, wk, dl, rk>>

----------------------------------------------------------------------------
(* Bounds of the model *)

\* failures (I/O errors, store errors) the environment injects in one behaviour
MaxFaults == 1

\* words in a text given to _extract_keywords, and the largest max_keywords
MaxWords == 5
MaxKeywordsArg == 3

Workers == {"w1", "w2"}

----------------------------------------------------------------------------
(* Text: characters, lowercasing, whitespace splitting *)

\* str.lower() on the characters the model uses
Lower(c) ==
    CASE c = "D" -> "d"
      [] c = "P" -> "p"
      [] c = "F" -> "f"
      [] c = "C" -> "c"
      [] OTHER -> c

LowerText(t) == [i \in 1..Len(t) |-> Lower(t[i])]

\* the characters str.split() splits on
IsSpace(c) == c \in {" ", "\n", "\t"}

\* str.split(): the maximal runs of non-whitespace characters, in order
RECURSIVE SplitFrom(_, _, _, _)
SplitFrom(t, i, cur, acc) ==
    IF i > Len(t)
    THEN IF cur = <<>> THEN acc ELSE Append(acc, cur)
    ELSE IF IsSpace(t[i])
         THEN SplitFrom(t, i + 1, <<>>, IF cur = <<>> THEN acc ELSE Append(acc, cur))
         ELSE SplitFrom(t, i + 1, Append(cur, t[i]), acc)

Split(t) == SplitFrom(t, 1, <<>>, <<>>)

\* str.endswith(suffix)
EndsWith(s, suffix) ==
    /\ Len(s) >= Len(suffix)
    /\ SubSeq(s, Len(s) - Len(suffix) + 1, Len(s)) = suffix

\* text[:n]
Prefix(t, n) == SubSeq(t, 1, IF Len(t) < n THEN Len(t) ELSE n)

RECURSIVE Concat(_)
Concat(ss) == IF ss = <<>> THEN <<>> ELSE Head(ss) \o Concat(Tail(ss))

----------------------------------------------------------------------------
(* PDFProcessor._extract_keywords *)

\* len(word) > 3
MinWordLen == 3

\* max_keywords = 10
DefaultMaxKeywords == 10

\* text[:500]
SummaryLen == 500

\* word_freq[word] = word_freq.get(word, 0) + 1 on an insertion-ordered dict,
\* kept as a sequence of [word, frequency] in first-occurrence order
CountWord(freq, word) ==
    IF \E i \in 1..Len(freq) : freq[i].word = word
    THEN [i \in 1..Len(freq) |->
            IF freq[i].word = word
            THEN [word |-> word, frequency |-> freq[i].frequency + 1]
            ELSE freq[i]]
    ELSE Append(freq, [word |-> word, frequency |-> 1])

\* the loop over words, skipping the short ones
RECURSIVE WordFreq(_, _)
WordFreq(words, freq) ==
    IF words = <<>> THEN freq
    ELSE WordFreq(Tail(words),
                  IF Len(Head(words)) > MinWordLen
                  THEN CountWord(freq, Head(words))
                  ELSE freq)

\* an unstable descending sort: an item goes before the items of its frequency
InsertByFreqTiesFirst(sorted, item) ==
    LET k == Cardinality({i \in 1..Len(sorted) : sorted[i].frequency > item.frequency})
    IN  SubSeq(sorted, 1, k) \o <<item>> \o SubSeq(sorted, k + 1, Len(sorted))

\* one step of sorted(..., key=frequency, reverse=True): the sort is stable, so an
\* item goes after every item whose frequency is at least its own
InsertByFreq(sorted, item) ==
    LET k == Cardinality({i \in 1..Len(sorted) : sorted[i].frequency >= item.frequency})
    IN  SubSeq(sorted, 1, k) \o <<item>> \o SubSeq(sorted, k + 1, Len(sorted))

RECURSIVE SortByFreq(_, _)
SortByFreq(items, sorted) ==
    IF items = <<>> THEN sorted
    ELSE SortByFreq(Tail(items), InsertByFreq(sorted, Head(items)))

_extract_keywords(text, max_keywords) ==
    Prefix(SortByFreq(WordFreq(Split(LowerText(text)), <<>>), <<>>), max_keywords)

\* the words the texts of the model are made of, and what separates two words
TextWords ==
    { <<"D", "a", "t", "a">>, <<"d", "a", "t", "a">>, <<"c", "o", "d", "e">>,
      <<"m", "o", "r", "e">>, <<"t", "h", "e">> }
Separators == { <<" ">>, <<"\n", " ">> }

\* a text: the words with the separator between them
RECURSIVE Join(_, _)
Join(words, sep) ==
    IF words = <<>> THEN <<>>
    ELSE IF Len(words) = 1 THEN words[1]
    ELSE words[1] \o sep \o Join(Tail(words), sep)

\* no call of _extract_keywords
RkIdle ==
    [words |-> <<>>, sep |-> <<" ">>, max_keywords |-> 0, pc |-> "idle", keywords |-> <<>>]

\* the calls of _extract_keywords(text, max_keywords) of the model
RkCalls ==
    {[RkIdle EXCEPT !.words = ws, !.sep = sp, !.max_keywords = m, !.pc = "call"] :
        ws \in UNION {[1..n -> TextWords] : n \in 0..MaxWords},
        sp \in Separators, m \in 0..MaxKeywordsArg}

\* keywords = self._extract_keywords(text, max_keywords), with nothing else moving
ExtractKeywordsCall ==
    /\ rk.pc = "call"
    /\ rk' = [rk EXCEPT !.keywords = _extract_keywords(Join(rk.words, rk.sep), rk.max_keywords),
                        !.pc = "done"]
    /\ UNCHANGED <<dl, input_dir, documents, processing_status, errors, clock, faults, wk>>

----------------------------------------------------------------------------
(* The files of the input directory *)

NameA == <<"a", ".", "p", "d", "f">>
NameB == <<"b", ".", "P", "D", "F">>
NameC == <<"c", ".", "p", "d", "f">>
NameZ == <<"z", ".", "p", "d", "f">>
NameTxt == <<"n", ".", "t", "x", "t">>
\* the names the downloaders give the file of the manifest entry "pdf1"
NamePdf01 == <<"p", "d", "f", "0", "1", ".", "p", "d", "f">>
NamePdf1 == <<"p", "d", "f", "1", ".", "p", "d", "f">>

Names == {NameA, NameB, NameC, NameZ, NameTxt, NamePdf01, NamePdf1}

PdfSuffix == <<".", "p", "d", "f">>

\* What a file holds: its bytes, whether PyPDF2 can read it, and the text
\* page.extract_text() gives for each of its pages.
\*   a.pdf  two pages with words longer than three characters
\*   b.PDF  one page of short words only
\*   c.pdf  not a PDF container: PdfReader raises
\*   z.pdf  a PDF with no pages
\*   pdf01.pdf, pdf1.pdf  what download_pdf wrote: a one-page PDF when the whole
\*          body of a PDF response was written, otherwise not a readable PDF
FileContent(name) ==
    CASE name = NameA ->
           [bytes |-> <<1, 2, 3>>, valid |-> TRUE,
            pages |-> << <<"D", "a", "t", "a", " ", "c", "o", "d", "e">>,
                         <<"t", "h", "e", " ", "d", "a", "t", "a">> >>]
      [] name = NameB ->
           [bytes |-> <<4, 5>>, valid |-> TRUE,
            pages |-> << <<"t", "h", "e", " ", "c", "a", "t">> >>]
      [] name = NameC ->
           [bytes |-> <<6>>, valid |-> FALSE, pages |-> <<>>]
      [] name = NameZ ->
           [bytes |-> <<7, 8>>, valid |-> TRUE, pages |-> <<>>]
      [] name \in {NamePdf01, NamePdf1} ->
           [bytes |-> <<10, dl.file.chunks>>,
            valid |-> dl.file.complete /\ dl.content_pdf,
            pages |-> IF dl.file.complete /\ dl.content_pdf
                      THEN << <<"D", "a", "t", "a", " ", "c", "o", "d", "e">> >>
                      ELSE <<>>]
      [] OTHER ->
           [bytes |-> <<9>>, valid |-> FALSE, pages |-> <<>>]

\* os.listdir(input_dir) of the directories the model runs on
Listings ==
    { <<>>,
      <<NameTxt>>,
      <<NameA, NameTxt, NameB>>,
      <<NameC, NameA>>,
      <<NameZ, NameB>> }

\* hashlib.sha256(content).hexdigest(): the digest stands for the bytes it was
\* computed from (no collisions)
Sha256(bytes) == <<"sha256", bytes>>

\* pdf_files = [f for f in os.listdir(input_dir) if f.lower().endswith('.pdf')]
RECURSIVE PdfFiles(_)
PdfFiles(listing) ==
    IF listing = <<>> THEN <<>>
    ELSE (IF EndsWith(LowerText(Head(listing)), PdfSuffix)
          THEN <<Head(listing)>> ELSE <<>>) \o PdfFiles(Tail(listing))

\* text = ""; for page in pdf_reader.pages: text += page.extract_text() + "\n"
ExtractText(pages) == Concat([i \in 1..Len(pages) |-> pages[i] \o <<"\n">>])

\* processed_data of process_pdf
ProcessedData(filename, content, now) ==
    LET text == ExtractText(content.pages) IN
    [filename |-> filename,
     summary |-> Prefix(text, SummaryLen),
     keywords |-> _extract_keywords(text, DefaultMaxKeywords),
     metadata |-> [page_count |-> Len(content.pages),
                   text_length |-> Len(text),
                   processed_time |-> now]]

----------------------------------------------------------------------------
(* MongoDBHandler: the store's operations *)

\* the documents a filter {"filename": filename} matches
FindByFilename(docs, filename) == {i \in DOMAIN docs : docs[i].filename = filename}

\* an insert that does not look for an existing document
UpsertInsertsAlways(docs, filename) == TRUE

\* update_one(..., upsert=True) inserts only when no document matches the filter;
\* the unique index on filename makes the test and the insert one step (a writer
\* that loses the race gets a DuplicateKeyError, one of the store errors of
\* SimUpsert)
UpsertInserts(docs, filename) == FindByFilename(docs, filename) = {}

\* file_path = os.path.join(self.input_dir, filename)
FilePath(filename) == <<"i", "n", "/">> \o filename

\* metadata that marks the new document completed
InitialMetadataCompleted(filename, content, now) ==
    [filename |-> filename,
     file_hash |-> Sha256(content.bytes),
     file_size |-> Len(content.bytes),
     file_path |-> FilePath(filename),
     upload_date |-> now,
     status |-> "completed",
     processing_status |-> [stage |-> "initial", attempts |-> 0, last_attempt |-> now],
     last_updated |-> now,
     results |-> <<>>,
     processing_history |-> <<>>]

\* metadata of store_initial_metadata; results is <<>> until results are stored
InitialMetadata(filename, content, now) ==
    [filename |-> filename,
     file_hash |-> Sha256(content.bytes),
     file_size |-> Len(content.bytes),
     file_path |-> FilePath(filename),
     upload_date |-> now,
     status |-> "pending",
     processing_status |-> [stage |-> "initial", attempts |-> 0, last_attempt |-> now],
     last_updated |-> now,
     results |-> <<>>,
     processing_history |-> <<>>]

\* an upsert with "$set": a matching document is overwritten with the metadata
UpsertInitialOverwriting(docs, filename, metadata) ==
    IF FindByFilename(docs, filename) = {}
    THEN Append(docs, metadata)
    ELSE [i \in DOMAIN docs |-> IF docs[i].filename = filename THEN metadata ELSE docs[i]]

\* an upsert that also "$set"s the status: a matching document goes back to the
\* status of the metadata
UpsertInitialResettingStatus(docs, filename, metadata) ==
    IF FindByFilename(docs, filename) = {}
    THEN Append(docs, metadata)
    ELSE [i \in DOMAIN docs |->
            IF docs[i].filename = filename
            THEN [docs[i] EXCEPT !.status = metadata.status]
            ELSE docs[i]]

\* documents.update_one({"filename": filename}, {"$setOnInsert": metadata}, upsert=True)
UpsertInitial(docs, filename, metadata) ==
    IF UpsertInserts(docs, filename) THEN Append(docs, metadata) ELSE docs

\* result.upserted_id: the new _id, or None (0) when a document matched
UpsertedId(docs, filename) ==
    IF UpsertInserts(docs, filename) THEN Len(docs) + 1 ELSE 0

\* processing_status.update_one({"filename": filename},
\*     {"$set": {"status": "pending", "timestamp": now}}, upsert=True)
TouchStatus(ps, filename, now) ==
    [ps EXCEPT ![filename] = <<[status |-> "pending", timestamp |-> now]>>]

\* documents.find_one({"filename": filename})["_id"]: the first match
FindOneId(docs, filename) ==
    CHOOSE i \in FindByFilename(docs, filename) :
        \A j \in FindByFilename(docs, filename) : i <= j

\* results merged by appending to the stored keyword list instead of replacing it
SetResultsAppending(doc, results, now) ==
    [doc EXCEPT !.filename = results.filename,
                !.results =
                    <<[summary |-> results.summary,
                       keywords |-> (IF doc.results = <<>> THEN <<>>
                                     ELSE doc.results[1].keywords) \o results.keywords,
                       metadata |-> results.metadata,
                       processing_version |-> "1.0"]>>,
                !.last_updated = now,
                !.status = "completed"]

\* the "$set": enriched_results of store_processing_results
SetResults(doc, results, now) ==
    [doc EXCEPT !.filename = results.filename,
                !.results = <<[summary |-> results.summary,
                               keywords |-> results.keywords,
                               metadata |-> results.metadata,
                               processing_version |-> "1.0"]>>,
                !.last_updated = now,
                !.status = "completed"]

\* a "$set" of processing_history: the history is the latest entry alone
PushHistoryReplacing(doc, results, now) ==
    [doc EXCEPT !.processing_history =
        <<[timestamp |-> now, version |-> "1.0",
           summary_length |-> Len(results.summary),
           keyword_count |-> Len(results.keywords)]>>]

\* the "$push": {"processing_history": ...} of store_processing_results
PushHistory(doc, results, now) ==
    [doc EXCEPT !.processing_history =
        Append(@, [timestamp |-> now, version |-> "1.0",
                   summary_length |-> Len(results.summary),
                   keyword_count |-> Len(results.keywords)])]

\* documents.update_one({"_id": doc_id}, update): no document, no change
UpdateResults(docs, doc_id, results, now) ==
    IF doc_id \in DOMAIN docs
    THEN [docs EXCEPT ![doc_id] = PushHistory(SetResults(@, results, now), results, now)]
    ELSE docs

\* str(doc_id), as store_processing_results passes it to _handle_error
StrOfId(doc_id) ==
    CASE doc_id = 1 -> <<"1">>
      [] doc_id = 2 -> <<"2">>
      [] doc_id = 3 -> <<"3">>
      [] doc_id = 4 -> <<"4">>
      [] OTHER -> <<"9">>

\* error_doc of _handle_error
ErrorDoc(error_type, filename, now) ==
    [error_type |-> error_type, filename |-> filename,
     timestamp |-> now, recovered |-> FALSE]

----------------------------------------------------------------------------
(* The workers: PDFProcessor.process_directory and what it calls *)

\* what a store call or a file read can do besides succeeding: raise a
\* PyMongoError, or raise another exception (an OSError, a BSON encoding error)
PyMongoError == "PyMongoError"
OtherError == "OtherError"
ExtractionError == "ExtractionError"
NoError == "none"

StoreErrors == {PyMongoError, OtherError}

\* a worker before process_directory is called; two fields record history:
\* handed, the filenames it has called process_pdf on, and rerun, whether the
\* Document of the current file was completed when process_pdf was called
WorkerInit ==
    [pc |-> "pd_start", pdf_files |-> <<>>, idx |-> 0,
     successful |-> 0, failed |-> 0, ret |-> "running",
     doc_id |-> 0, upserted_id |-> 0, exc |-> NoError,
     processed_data |-> <<>>, result |-> "unset",
     handed |-> <<>>, rerun |-> FALSE]

\* a fresh database (the collections are empty) and workers not yet started
EmptyStore ==
    /\ documents = <<>>
    /\ processing_status = [n \in Names |-> <<>>]
    /\ errors = <<>>
    /\ clock = 1
    /\ faults = 0
    /\ wk = [w \in Workers |-> WorkerInit]

InitStore ==
    /\ input_dir \in {[exists |-> TRUE, listing |-> l] : l \in Listings}
                     \cup {[exists |-> FALSE, listing |-> <<>>]}
    /\ EmptyStore

\* the file process_pdf is working on
CurrentFile(w) == wk[w].pdf_files[wk[w].idx]

\* the environment makes the next call fail
InjectFault ==
    /\ faults < MaxFaults
    /\ faults' = faults + 1

\* process_directory up to the loop: lines 262-274
ProcessDirectoryStart(w) ==
    /\ wk[w].pc = "pd_start"
    /\ IF ~input_dir.exists
       THEN wk' = [wk EXCEPT ![w].pc = "done", ![w].ret = "ValueError"]
       ELSE IF PdfFiles(input_dir.listing) = <<>>
            THEN wk' = [wk EXCEPT ![w].pc = "done", ![w].ret = "None"]
            ELSE wk' = [wk EXCEPT ![w].pc = "pd_loop",
                                  ![w].pdf_files = PdfFiles(input_dir.listing),
                                  ![w].idx = 1]
    /\ UNCHANGED <<rk, dl, input_dir, documents, processing_status, errors, clock, faults>>

\* for filename in pdf_files: result = self.process_pdf(filename), up to the
\* call of store_initial_metadata (doc_id = None)
ProcessPdfCall(w) ==
    /\ wk[w].pc = "pd_loop"
    /\ wk[w].idx <= Len(wk[w].pdf_files)
    /\ wk' = [wk EXCEPT ![w].pc = "sim_read",
                        ![w].doc_id = 0, ![w].upserted_id = 0,
                        ![w].exc = NoError, ![w].result = "unset",
                        ![w].processed_data = <<>>,
                        ![w].handed = Append(@, CurrentFile(w)),
                        ![w].rerun = \E i \in FindByFilename(documents, CurrentFile(w)) :
                                        documents[i].status = "completed"]
    /\ UNCHANGED <<rk, dl, input_dir, documents, processing_status, errors, clock, faults>>

\* the loop is over: return {"successful": successful, "failed": failed}
ProcessDirectoryReturn(w) ==
    /\ wk[w].pc = "pd_loop"
    /\ wk[w].idx > Len(wk[w].pdf_files)
    /\ wk' = [wk EXCEPT ![w].pc = "done", ![w].ret = "tally"]
    /\ UNCHANGED <<rk, dl, input_dir, documents, processing_status, errors, clock, faults>>

\* store_initial_metadata lines 82-85: read the file, hash it
SimReadFile(w) ==
    /\ wk[w].pc = "sim_read"
    /\ \/ /\ wk' = [wk EXCEPT ![w].pc = "sim_upsert"]
          /\ UNCHANGED faults
       \/ /\ InjectFault
          /\ wk' = [wk EXCEPT ![w].pc = "sim_except", ![w].exc = OtherError]
    /\ UNCHANGED <<rk, dl, input_dir, documents, processing_status, errors, clock>>

\* store_initial_metadata lines 103-107: the upsert
SimUpsert(w) ==
    /\ wk[w].pc = "sim_upsert"
    /\ \/ /\ documents' = UpsertInitial(documents, CurrentFile(w),
                             InitialMetadata(CurrentFile(w), FileContent(CurrentFile(w)), clock))
          /\ wk' = [wk EXCEPT ![w].pc = "sim_touch",
                              ![w].upserted_id = UpsertedId(documents, CurrentFile(w))]
          /\ UNCHANGED faults
       \/ /\ InjectFault
          /\ \E e \in StoreErrors :
                wk' = [wk EXCEPT ![w].pc = "sim_except", ![w].exc = e]
          /\ UNCHANGED documents
    /\ UNCHANGED <<rk, dl, input_dir, processing_status, errors, clock>>

\* store_initial_metadata lines 110-119: the status-tracking touch
SimTouch(w) ==
    /\ wk[w].pc = "sim_touch"
    /\ \/ /\ processing_status' = TouchStatus(processing_status, CurrentFile(w), clock)
          /\ wk' = [wk EXCEPT ![w].pc = "sim_find"]
          /\ clock' = clock + 1
          /\ UNCHANGED faults
       \/ /\ InjectFault
          /\ \E e \in StoreErrors :
                wk' = [wk EXCEPT ![w].pc = "sim_except", ![w].exc = e]
          /\ UNCHANGED <<processing_status, clock>>
    /\ UNCHANGED <<rk, dl, input_dir, documents, errors>>

\* store_initial_metadata lines 121-123:
\* doc_id = result.upserted_id or self.documents.find_one(...)["_id"]; return doc_id
SimReturn(w) ==
    /\ wk[w].pc = "sim_find"
    /\ IF wk[w].upserted_id # 0
       THEN /\ wk' = [wk EXCEPT ![w].pc = "pp_extract", ![w].doc_id = wk[w].upserted_id]
            /\ UNCHANGED faults
       ELSE \/ /\ FindByFilename(documents, CurrentFile(w)) # {}
               /\ wk' = [wk EXCEPT ![w].pc = "pp_extract",
                                   ![w].doc_id = FindOneId(documents, CurrentFile(w))]
               /\ UNCHANGED faults
            \/ /\ InjectFault
               /\ \E e \in StoreErrors :
                     wk' = [wk EXCEPT ![w].pc = "sim_except", ![w].exc = e]
    /\ UNCHANGED <<rk, dl, input_dir, documents, processing_status, errors, clock>>

\* _handle_error (lines 129-144) called with `error_type` and `filename`: the insert
\* succeeds, or raises a PyMongoError that _handle_error swallows (the worker goes
\* on as `after`), or raises another exception, which leaves _handle_error (the
\* worker goes on as `raised`)
HandleError(error_type, filename, after, raised) ==
    \/ /\ errors' = Append(errors, ErrorDoc(error_type, filename, clock))
       /\ wk' = after
       /\ UNCHANGED <<clock, faults>>
    \/ /\ InjectFault
       /\ wk' = after
       /\ UNCHANGED <<errors, clock>>
    \/ /\ InjectFault
       /\ wk' = raised
       /\ UNCHANGED <<errors, clock>>

\* store_initial_metadata lines 125-127: except Exception: _handle_error(...); raise
SimExcept(w) ==
    /\ wk[w].pc = "sim_except"
    /\ HandleError("metadata_storage", CurrentFile(w),
                   [wk EXCEPT ![w].pc = "pp_except"],
                   [wk EXCEPT ![w].pc = "pp_except", ![w].exc = OtherError])
    /\ UNCHANGED <<rk, dl, input_dir, documents, processing_status>>

\* process_pdf lines 216-232: extract the text, build processed_data
PpExtract(w) ==
    /\ wk[w].pc = "pp_extract"
    /\ \/ /\ FileContent(CurrentFile(w)).valid
          /\ wk' = [wk EXCEPT ![w].pc = "spr_update",
                              ![w].processed_data =
                                  <<ProcessedData(CurrentFile(w),
                                                  FileContent(CurrentFile(w)), clock)>>]
          /\ UNCHANGED faults
       \/ /\ ~FileContent(CurrentFile(w)).valid
          /\ wk' = [wk EXCEPT ![w].pc = "pp_except", ![w].exc = ExtractionError]
          /\ UNCHANGED faults
       \/ /\ InjectFault
          /\ wk' = [wk EXCEPT ![w].pc = "pp_except", ![w].exc = OtherError]
    /\ UNCHANGED <<rk, dl, input_dir, documents, processing_status, errors, clock>>

\* store_processing_results lines 148-171, then process_pdf line 238:
\* return processed_data
SprUpdate(w) ==
    /\ wk[w].pc = "spr_update"
    /\ \/ /\ documents' = UpdateResults(documents, wk[w].doc_id,
                                        wk[w].processed_data[1], clock)
          /\ wk' = [wk EXCEPT ![w].pc = "pd_result", ![w].result = "data"]
          /\ UNCHANGED faults
       \/ /\ InjectFault
          /\ wk' = [wk EXCEPT ![w].pc = "spr_except", ![w].exc = PyMongoError]
          /\ UNCHANGED documents
       \/ /\ InjectFault
          /\ wk' = [wk EXCEPT ![w].pc = "pp_except", ![w].exc = OtherError]
          /\ UNCHANGED documents
    /\ UNCHANGED <<rk, dl, input_dir, processing_status, errors, clock>>

\* store_processing_results lines 173-175:
\* except PyMongoError: _handle_error("results_storage", str(doc_id), ...); raise
SprExcept(w) ==
    /\ wk[w].pc = "spr_except"
    /\ HandleError("results_storage", StrOfId(wk[w].doc_id),
                   [wk EXCEPT ![w].pc = "pp_except"],
                   [wk EXCEPT ![w].pc = "pp_except", ![w].exc = OtherError])
    /\ UNCHANGED <<rk, dl, input_dir, documents, processing_status>>

\* process_pdf lines 240-245: except Exception: if doc_id: _handle_error(...);
\* return None. An exception leaving _handle_error leaves process_pdf too.
PpExcept(w) ==
    /\ wk[w].pc = "pp_except"
    /\ IF wk[w].doc_id # 0
       THEN HandleError("processing", CurrentFile(w),
                        [wk EXCEPT ![w].pc = "pd_result", ![w].result = "None"],
                        [wk EXCEPT ![w].pc = "pd_except", ![w].exc = OtherError])
       ELSE /\ wk' = [wk EXCEPT ![w].pc = "pd_result", ![w].result = "None"]
            /\ UNCHANGED <<errors, clock, faults>>
    /\ UNCHANGED <<rk, dl, input_dir, documents, processing_status>>

\* a loop that skips the file after one that failed
NextIndexSkipAfterFailure(idx, ok) == IF ok THEN idx + 1 ELSE idx + 2

\* where the loop of process_directory goes after a file: the next file, whatever
\* happened to this one
NextIndex(idx, ok) == idx + 1

\* process_directory lines 279-282: if result: successful += 1 else: failed += 1
PdResult(w) ==
    /\ wk[w].pc = "pd_result"
    /\ wk' = [wk EXCEPT ![w].pc = "pd_loop",
                        ![w].successful = IF wk[w].result = "data" THEN @ + 1 ELSE @,
                        ![w].failed = IF wk[w].result = "data" THEN @ ELSE @ + 1,
                        ![w].idx = NextIndex(@, wk[w].result = "data")]
    /\ UNCHANGED <<rk, dl, input_dir, documents, processing_status, errors, clock, faults>>

\* process_directory lines 283-285: except Exception: failed += 1
PdExcept(w) ==
    /\ wk[w].pc = "pd_except"
    /\ wk' = [wk EXCEPT ![w].pc = "pd_loop",
                        ![w].failed = @ + 1,
                        ![w].idx = NextIndex(@, FALSE)]
    /\ UNCHANGED <<rk, dl, input_dir, documents, processing_status, errors, clock, faults>>

WorkerStep(w) ==
    \/ ProcessDirectoryStart(w)
    \/ ProcessPdfCall(w)
    \/ ProcessDirectoryReturn(w)
    \/ SimReadFile(w)
    \/ SimUpsert(w)
    \/ SimTouch(w)
    \/ SimReturn(w)
    \/ SimExcept(w)
    \/ PpExtract(w)
    \/ SprUpdate(w)
    \/ SprExcept(w)
    \/ PpExcept(w)
    \/ PdResult(w)
    \/ PdExcept(w)

----------------------------------------------------------------------------
(* The listing page: index of src/app.py *)

\* BSON values carry their type: an element of the stored keywords list is an
\* embedded document {"word", "frequency"}, a query argument is a string
BsonOfKeyword(kw) == [type |-> "object", value |-> kw]
BsonOfString(str) == [type |-> "string", value |-> str]

\* values of different BSON types are not equal
BsonEquals(a, b) == a.type = b.type /\ a.value = b.value

\* the keywords list store_processing_results $sets on the document; a document
\* without results has no keywords field
StoredKeywords(doc) ==
    IF doc.results = <<>> THEN <<>> ELSE doc.results[1].keywords

\* {"keywords": {"$in": [keywords_filter]}}: some element of the array equals it
MatchesKeywords(doc, keywords_filter) ==
    \E i \in DOMAIN StoredKeywords(doc) :
        BsonEquals(BsonOfKeyword(StoredKeywords(doc)[i]), BsonOfString(keywords_filter))

\* request.args.get(...): a string, or nothing (<<>> and "", which stand for None
\* and for the empty string, both falsy)
KeywordsArgs == {<<>>, <<"d", "a", "t", "a">>, <<"c", "o", "d", "e">>, <<"c", "a", "t">>}
StatusArgs == {"", "pending", "completed", "error"}

\* index(): db.documents.find(query), as the set of ids of the documents found
index(docs, keywords_filter, status_filter) ==
    {i \in DOMAIN docs :
        /\ keywords_filter # <<>> => MatchesKeywords(docs[i], keywords_filter)
        /\ status_filter # "" => docs[i].status = status_filter}

----------------------------------------------------------------------------
(* The fetchers: download_pdf of src/pdf-downloader.py ("retrying") and of
   src/pdf_downloader.py ("simple") *)

\* a retry budget of one attempt more
max_retries_plus_one == 3 + 1

\* max_retries = 3, range(3)
max_retries == 3

\* chunks in the body of a response
BodyChunks == 2

Variants == {"pdf-downloader.py", "pdf_downloader.py"}

GoodUrl == [host |-> "good.example", path |-> "/doc.pdf"]
ProblemUrl == [host |-> "ijtr.nic.in", path |-> "/doc.pdf"]
Urls == {GoodUrl, ProblemUrl}

\* main: verify_ssl = not ('ijtr.nic.in' in url)
MainVerifySsl(url) == ~(url.host = "ijtr.nic.in")

\* no call of download_pdf
DlIdle ==
    [variant |-> "none", url |-> GoodUrl, verify_ssl |-> TRUE, pc |-> "idle",
     attempt |-> 0, requests |-> <<>>, content_pdf |-> TRUE,
     file |-> [exists |-> FALSE, chunks |-> 0, complete |-> FALSE],
     warned |-> FALSE, ret |-> "running"]

\* download_pdf as main calls it (pdf-downloader.py with the verify_ssl main
\* computes, which is the default True except for the problem domain), at the top of
\* its loop; pdf_downloader.py's download_pdf has no verify_ssl
DlCalls ==
    {[DlIdle EXCEPT !.variant = v, !.url = u, !.pc = "loop",
                    !.verify_ssl = IF v = "pdf-downloader.py" THEN MainVerifySsl(u) ELSE TRUE]
        : v \in Variants, u \in Urls}

\* verification follows verify_ssl on every attempt
RequestVerifiesAsAsked(variant, verify_ssl, attempt) ==
    IF variant = "pdf-downloader.py" THEN verify_ssl ELSE FALSE

\* whether this call's request of `attempt` (0-based) verifies certificates:
\*   pdf-downloader.py lines 24-28: if verify_ssl or attempt < max_retries - 1
\*   pdf_downloader.py line 21: verify=False
RequestVerifies(variant, verify_ssl, attempt) ==
    IF variant = "pdf-downloader.py"
    THEN verify_ssl \/ attempt < max_retries - 1
    ELSE FALSE

\* what a request can end in: a response with a 2xx status, a certificate
\* validation failure (only when the request verifies), or another transport
\* error (connection failure, timeout, non-2xx status)
RequestOutcomes(verify) ==
    {"ok", "transport"} \cup (IF verify THEN {"ssl"} ELSE {})

\* pdf-downloader.py lines 33-35: the warning about the content type
WarnsContentType(content_pdf, attempt) ==
    ~content_pdf /\ attempt = max_retries - 1

\* requests.get(...) and response.raise_for_status(), of either variant
DlRequest ==
    /\ dl.pc = "loop"
    /\ dl.attempt < max_retries
    /\ LET verify == RequestVerifies(dl.variant, dl.verify_ssl, dl.attempt) IN
       \E o \in RequestOutcomes(verify), ct \in BOOLEAN :
         /\ o # "ok" => ct
         /\ dl' = [dl EXCEPT
               !.requests = Append(@, [verify |-> verify, outcome |-> o]),
               !.content_pdf = ct,
               !.warned = @ \/ (o = "ok" /\ dl.variant = "pdf-downloader.py"
                                        /\ WarnsContentType(ct, dl.attempt)),
               !.pc = CASE o = "ok" -> "open"
                        [] o = "ssl" /\ dl.variant = "pdf-downloader.py" -> "ssl_except"
                        [] OTHER -> "req_except"]
    /\ UNCHANGED <<rk, storeVars>>

\* with open(file_path, 'wb') as file: the file is created or truncated
DlOpen ==
    /\ dl.pc = "open"
    /\ dl' = [dl EXCEPT !.file = [exists |-> TRUE, chunks |-> 0, complete |-> FALSE],
                        !.pc = "stream"]
    /\ UNCHANGED <<rk, storeVars>>

\* for chunk in response.iter_content(chunk_size=8192): file.write(chunk)
DlWriteChunk ==
    /\ dl.pc = "stream"
    /\ dl.file.chunks < BodyChunks
    /\ dl' = [dl EXCEPT !.file.chunks = @ + 1]
    /\ UNCHANGED <<rk, storeVars>>

\* the connection breaks while the body is streamed: iter_content raises a
\* RequestException, the with block closes the file as it is
DlStreamError ==
    /\ dl.pc = "stream"
    /\ dl.file.chunks < BodyChunks
    /\ dl' = [dl EXCEPT !.requests[Len(dl.requests)].outcome = "stream",
                        !.pc = "req_except"]
    /\ UNCHANGED <<rk, storeVars>>

\* the body is written: the file is closed, return True
DlReturnTrue ==
    /\ dl.pc = "stream"
    /\ dl.file.chunks = BodyChunks
    /\ dl' = [dl EXCEPT !.file.complete = TRUE, !.pc = "done", !.ret = "True"]
    /\ UNCHANGED <<rk, storeVars>>

\* pdf-downloader.py lines 47-57: except requests.exceptions.SSLError. On the last
\* attempt `continue` goes to the top of the loop, which is over.
DlSslExcept ==
    /\ dl.pc = "ssl_except"
    /\ dl' = [dl EXCEPT !.attempt = @ + 1, !.pc = "loop"]
    /\ UNCHANGED <<rk, storeVars>>

\* except requests.exceptions.RequestException:
\*   pdf-downloader.py lines 59-65: retry, or return False on the last attempt
\*   pdf_downloader.py lines 28-30: sleep and go on with the loop
DlReqExcept ==
    /\ dl.pc = "req_except"
    /\ IF dl.variant = "pdf-downloader.py" /\ ~(dl.attempt < max_retries - 1)
       THEN dl' = [dl EXCEPT !.pc = "done", !.ret = "False"]
       ELSE dl' = [dl EXCEPT !.attempt = @ + 1, !.pc = "loop"]
    /\ UNCHANGED <<rk, storeVars>>

\* the loop is over without a return:
\*   pdf-downloader.py: the function ends, which returns None
\*   pdf_downloader.py lines 31-32: return False
DlLoopEnd ==
    /\ dl.pc = "loop"
    /\ ~(dl.attempt < max_retries)
    /\ dl' = [dl EXCEPT !.pc = "done",
                        !.ret = IF dl.variant = "pdf-downloader.py" THEN "None" ELSE "False"]
    /\ UNCHANGED <<rk, storeVars>>

\* main: the filename of the manifest entry "pdf1", the only one
\*   pdf-downloader.py line 91: f"pdf{index:02d}.pdf"
\*   pdf_downloader.py line 40: f"{pdf_id}.pdf"
MainFilename(variant) ==
    IF variant = "pdf-downloader.py" THEN NamePdf01 ELSE NamePdf1

\* os.listdir('pdf_downloads') after the downloader's main
DownloadDirListing ==
    IF dl.file.exists THEN <<MainFilename(dl.variant)>> ELSE <<>>

\* the downloader's main ends after its one call of download_pdf (it prints the
\* outcome and writes nothing), and the processor's main is started on the
\* download directory
MainsHandOver ==
    /\ dl.pc = "done"
    /\ dl' = [dl EXCEPT !.pc = "main_done"]
    /\ input_dir' = [exists |-> TRUE, listing |-> DownloadDirListing]
    /\ wk' = [wk EXCEPT ![CHOOSE w \in Workers : TRUE].pc = "pd_start"]
    /\ UNCHANGED <<rk, documents, processing_status, errors, clock, faults>>

----------------------------------------------------------------------------
(* The specifications *)

\* the processing pipeline: the workers run process_directory on one database
Init == InitStore /\ dl = DlIdle /\ rk = RkIdle

Next == \E w \in Workers : WorkerStep(w)

Spec == Init /\ [][Next]_vars

\* the fetchers: one call of download_pdf
InitFetch ==
    /\ input_dir = [exists |-> FALSE, listing |-> <<>>]
    /\ EmptyStore
    /\ dl \in DlCalls
    /\ rk = RkIdle

NextFetch ==
    \/ DlRequest
    \/ DlOpen
    \/ DlWriteChunk
    \/ DlStreamError
    \/ DlReturnTrue
    \/ DlSslExcept
    \/ DlReqExcept
    \/ DlLoopEnd

SpecFetch == InitFetch /\ [][NextFetch]_vars

\* the batch: the downloader's main on a manifest of one entry in a new download
\* directory, then the processor's main on that directory with a fresh database
InitBatch ==
    /\ input_dir = [exists |-> TRUE, listing |-> <<>>]
    /\ documents = <<>>
    /\ processing_status = [n \in Names |-> <<>>]
    /\ errors = <<>>
    /\ clock = 1
    /\ faults = 0
    /\ wk = [w \in Workers |-> [WorkerInit EXCEPT !.pc = "not_started"]]
    /\ dl \in DlCalls
    /\ rk = RkIdle

NextBatch ==
    \/ NextFetch
    \/ MainsHandOver
    \/ \E w \in Workers : WorkerStep(w)

SpecBatch == InitBatch /\ [][NextBatch]_vars

\* the keyword ranker: one call of _extract_keywords
InitRank ==
    /\ input_dir = [exists |-> FALSE, listing |-> <<>>]
    /\ EmptyStore
    /\ dl = DlIdle
    /\ rk \in RkCalls

NextRank == ExtractKeywordsCall

SpecRank == InitRank /\ [][NextRank]_vars

----------------------------------------------------------------------------
(* The claims *)

\* process_pdf of worker w has a doc_id: store_initial_metadata returned it
HasReturnedId(w) ==
    /\ wk[w].pc \in {"pp_extract", "spr_update", "spr_except", "pp_except",
                     "pd_result", "pd_except"}
    /\ wk[w].doc_id # 0

\* store_initial_metadata of worker w has run its upsert
HasUpserted(w) == wk[w].pc \in {"sim_touch", "sim_find"} \/ HasReturnedId(w)

\* C1: whatever the interleaving of the workers' store_initial_metadata calls, no
\* two Documents share a filename, every filename whose upsert has run has exactly
\* one Document, and every call that has returned returned the id of that Document.
C1_OneDocumentPerFilename ==
    /\ \A i, j \in DOMAIN documents :
          documents[i].filename = documents[j].filename => i = j
    /\ \A w \in Workers :
          HasUpserted(w) => Cardinality(FindByFilename(documents, CurrentFile(w))) = 1
    /\ \A w \in Workers :
          HasReturnedId(w) => FindByFilename(documents, CurrentFile(w)) = {wk[w].doc_id}

\* C1 witness: two workers hold the id of the same file's Document, one from its
\* own insert and one that found the Document already there.
C1_Witness ==
    \E w1, w2 \in Workers :
        /\ w1 # w2
        /\ HasReturnedId(w1) /\ HasReturnedId(w2)
        /\ CurrentFile(w1) = CurrentFile(w2)
        /\ wk[w1].upserted_id # 0
        /\ wk[w2].upserted_id = 0
        /\ wk[w1].doc_id = wk[w2].doc_id

\* process_pdf of worker w has ended in failure (it returned None or raised)
PpFailed(w) ==
    \/ wk[w].pc = "pd_result" /\ wk[w].result = "None"
    \/ wk[w].pc = "pd_except"

\* C2 (as claimed): when process_pdf has failed for a file, the file's Document
\* has status error.
C2_FailureSetsStatusError ==
    \A w \in Workers :
        PpFailed(w) =>
            \A i \in FindByFilename(documents, CurrentFile(w)) :
                documents[i].status = "error"

\* C3 (as claimed): every completed Document has a non-empty summary, a non-empty
\* keyword list and a page count.
C3_CompletedHasResults ==
    \A i \in DOMAIN documents :
        documents[i].status = "completed" =>
            /\ documents[i].results # <<>>
            /\ documents[i].results[1].summary # <<>>
            /\ documents[i].results[1].keywords # <<>>

\* C4: process_directory hands the candidate files to process_pdf in order, one
\* call each: at the top of the loop the files before idx are the ones handed,
\* whatever their outcomes, and when it returns on an existing directory every
\* candidate has been handed exactly once.
C4_EveryCandidateHandedOnce ==
    \A w \in Workers :
        LET candidates == PdfFiles(input_dir.listing) IN
        /\ Len(wk[w].handed) <= Len(candidates)
        /\ wk[w].handed = SubSeq(candidates, 1, Len(wk[w].handed))
        /\ wk[w].pc = "pd_loop" => Len(wk[w].handed) = wk[w].idx - 1
        /\ (wk[w].pc = "done" /\ input_dir.exists) => wk[w].handed = candidates

\* C4 witness: a run has returned after a file that failed was followed by a file
\* that succeeded.
C4_Witness ==
    \E w \in Workers :
        /\ wk[w].pc = "done"
        /\ wk[w].handed = <<NameC, NameA>>
        /\ wk[w].failed = 1
        /\ wk[w].successful = 1

\* C5: one call of download_pdf issues at most 3 requests, and every request it
\* issued before the latest one has failed (none follows a success).
C5_AtMostThreeRequests ==
    /\ Len(dl.requests) <= 3
    /\ \A i \in 1..(Len(dl.requests) - 1) : dl.requests[i].outcome # "ok"
    /\ dl.ret = "True" => dl.requests[Len(dl.requests)].outcome = "ok"

\* C5 witness: a call has returned True on its second request.
C5_Witness ==
    /\ dl.pc = "done"
    /\ dl.ret = "True"
    /\ Len(dl.requests) = 2
    /\ dl.requests[1].outcome # "ok"

\* C6 (as claimed): when download_pdf of pdf-downloader.py has ended after
\* certificate failures on attempts 1 and 2, it made a third request without
\* verification, and it returned True if that request was accepted.
C6_FallbackAfterCertificateFailures ==
    (/\ dl.variant = "pdf-downloader.py"
     /\ dl.pc = "done"
     /\ Len(dl.requests) >= 2
     /\ dl.requests[1].outcome = "ssl"
     /\ dl.requests[2].outcome = "ssl")
    => /\ Len(dl.requests) = 3
       /\ ~dl.requests[3].verify
       /\ dl.requests[3].outcome = "ok" => dl.ret = "True"

C8_TransportFailureLeavesNoPartialFile ==
    (/\ dl.pc = "done"
     /\ \A i \in 1..Len(dl.requests) : dl.requests[i].outcome \in {"transport", "stream"})
    => /\ dl.ret = "False"
       /\ Len(dl.requests) = 3
       /\ ~(dl.file.exists /\ ~dl.file.complete)

\* C9 (as claimed): download_pdf of pdf-downloader.py returns True or False.
C9_ReturnsTrueOrFalse ==
    (dl.variant = "pdf-downloader.py" /\ dl.pc = "done") => dl.ret \in {"True", "False"}

\* C10: a completed Document stays completed and keeps its summary, keywords and
\* page count through every step of every later run on the unchanged file, and it
\* stays the only Document of its filename.
C10_RerunKeepsResults ==
    [][\A i \in DOMAIN documents :
          documents[i].status = "completed" =>
              /\ i \in DOMAIN documents'
              /\ documents'[i].status = "completed"
              /\ documents'[i].results[1].summary = documents[i].results[1].summary
              /\ documents'[i].results[1].keywords = documents[i].results[1].keywords
              /\ documents'[i].results[1].metadata.page_count
                     = documents[i].results[1].metadata.page_count
              /\ FindByFilename(documents', documents[i].filename) = {i}]_vars

\* C10 witness: a run of process_pdf that began on a completed Document has stored
\* its results, the second entry of the Document's history.
C10_Witness ==
    \E w \in Workers :
        /\ wk[w].pc = "pd_result"
        /\ wk[w].result = "data"
        /\ wk[w].rerun
        /\ documents[wk[w].doc_id].status = "completed"
        /\ Len(documents[wk[w].doc_id].processing_history) = 2

\* worker w is in store_initial_metadata, past the file read, for a filename whose
\* Document was there before its upsert
SimOnExisting(w) ==
    \/ /\ wk[w].pc = "sim_upsert"
       /\ FindByFilename(documents, CurrentFile(w)) # {}
    \/ /\ wk[w].pc \in {"sim_touch", "sim_find"}
       /\ wk[w].upserted_id = 0

\* C11: a step of store_initial_metadata for a filename that already has a
\* Document changes no Document and no error record; its status-tracking write
\* changes the record of that filename only, giving it a later timestamp; and the
\* id it returns is the id of the Document that was there.
C11_ExistingDocumentUntouched ==
    [][\A w \in Workers :
          (SimOnExisting(w) /\ wk'[w] # wk[w]) =>
              /\ documents' = documents
              /\ errors' = errors
              /\ \A n \in Names \ {CurrentFile(w)} :
                    processing_status'[n] = processing_status[n]
              /\ wk'[w].pc = "sim_find" =>
                    /\ wk[w].pc = "sim_touch"
                    /\ processing_status'[CurrentFile(w)] # <<>>
                    /\ processing_status'[CurrentFile(w)][1].timestamp = clock
                    /\ processing_status[CurrentFile(w)] # <<>> =>
                          processing_status'[CurrentFile(w)][1].timestamp
                              > processing_status[CurrentFile(w)][1].timestamp
              /\ wk[w].pc # "sim_touch" =>
                    processing_status' = processing_status
              /\ wk'[w].pc = "pp_extract" =>
                    /\ wk'[w].doc_id \in DOMAIN documents
                    /\ documents[wk'[w].doc_id].filename = CurrentFile(w)]_vars

\* C11 witness: a call for a filename that had a Document has returned that
\* Document's id, and the status-tracking record is later than the Document.
C11_Witness ==
    \E w \in Workers :
        /\ wk[w].pc = "pp_extract"
        /\ wk[w].upserted_id = 0
        /\ wk[w].doc_id \in DOMAIN documents
        /\ documents[wk[w].doc_id].filename = CurrentFile(w)
        /\ processing_status[CurrentFile(w)] # <<>>
        /\ processing_status[CurrentFile(w)][1].timestamp
               > documents[wk[w].doc_id].upload_date

\* C12 (as claimed): every error record has one of the four error kinds and, as
\* filename, the name of a file of the input directory.
C12_ErrorRecordIdentifiesFailure ==
    \A i \in DOMAIN errors :
        /\ errors[i].error_type \in
               {"metadata_storage", "download", "extraction", "results_storage"}
        /\ errors[i].filename \in Names

\* C13 (as claimed): a step of _handle_error, whether its insert succeeds or
\* fails, leaves the caller's pending exception as it was and goes on where it
\* goes after a successful insert: back to the handler that re-raises, or to
\* process_pdf returning None.
C13_ErrorLogNeverFailsCaller ==
    [][\A w \in Workers :
          (wk[w].pc \in {"sim_except", "spr_except", "pp_except"} /\ wk'[w] # wk[w]) =>
              /\ wk'[w].exc = wk[w].exc
              /\ wk'[w].pc = IF wk[w].pc = "pp_except" THEN "pd_result" ELSE "pp_except"]_vars

\* C14 (as claimed): process_directory on an existing directory returns a tally
\* whose counts sum to the number of candidate files, zero candidates included.
C14_TallyAlwaysReturned ==
    \A w \in Workers :
        (wk[w].pc = "done" /\ input_dir.exists) =>
            /\ wk[w].ret = "tally"
            /\ wk[w].successful + wk[w].failed = Len(PdfFiles(input_dir.listing))

\* every request of the call failed to reach the server, and the batch is over
UnreachableBatchOver ==
    /\ dl.pc = "main_done"
    /\ dl.requests # <<>>
    /\ \A i \in DOMAIN dl.requests : dl.requests[i].outcome = "transport"
    /\ \A w \in Workers : wk[w].pc \in {"not_started", "done"}

\* C15 (as claimed): after the batch on a manifest whose one URL is unreachable,
\* the store holds a Document of status error and an error record of kind
\* download, and the processor returned the tally 0 successful, 1 failed.
C15_UnreachableUrlRecorded ==
    UnreachableBatchOver =>
        /\ \E i \in DOMAIN documents : documents[i].status = "error"
        /\ \E i \in DOMAIN errors : errors[i].error_type = "download"
        /\ \E w \in Workers :
              /\ wk[w].ret = "tally"
              /\ wk[w].successful = 0
              /\ wk[w].failed = 1

\* C16 (as claimed): the listing query returns exactly the Documents that have
\* the word of the keywords filter in their keyword list, when there is one, and
\* the status of the status filter, when there is one.
C16_ListingFiltersExact ==
    \A k \in KeywordsArgs, st \in StatusArgs :
        index(documents, k, st) =
            {i \in DOMAIN documents :
                /\ k # <<>> =>
                      \E j \in DOMAIN StoredKeywords(documents[i]) :
                          StoredKeywords(documents[i])[j].word = k
                /\ st # "" => documents[i].status = st}

\* C17: _extract_keywords returns what the reference ranker returns: the distinct
\* lowercased words of more than three characters with their numbers of
\* occurrences, a word before another when it occurs more often, or as often and
\* first occurs earlier, cut to the first max_keywords; so it has at most
\* max_keywords entries and no word of three characters or fewer.
C17_KeywordsAreReferenceRanking ==
    rk.pc = "done" =>
        LET lowered == [i \in DOMAIN rk.words |-> LowerText(rk.words[i])]
            W == {lowered[i] : i \in {j \in DOMAIN lowered : Len(lowered[j]) > 3}}
            Count(w) == Cardinality({i \in DOMAIN lowered : lowered[i] = w})
            First(w) == CHOOSE i \in DOMAIN lowered :
                            /\ lowered[i] = w
                            /\ \A j \in DOMAIN lowered : lowered[j] = w => i <= j
            Before(v, w) == \/ Count(v) > Count(w)
                            \/ Count(v) = Count(w) /\ First(v) < First(w)
            Rank(w) == 1 + Cardinality({v \in W : Before(v, w)})
            n == IF Cardinality(W) < rk.max_keywords
                 THEN Cardinality(W) ELSE rk.max_keywords
        IN  /\ rk.keywords =
                  [r \in 1..n |->
                      LET w == CHOOSE v \in W : Rank(v) = r
                      IN  [word |-> w, frequency |-> Count(w)]]
            /\ Len(rk.keywords) <= rk.max_keywords
            /\ \A r \in DOMAIN rk.keywords : Len(rk.keywords[r].word) > 3

\* C17 witness: a call has returned max_keywords entries, the first two of them
\* with the same number of occurrences, and left out a word long enough to count.
C17_Witness ==
    /\ rk.pc = "done"
    /\ Len(rk.keywords) = rk.max_keywords
    /\ Len(rk.keywords) >= 2
    /\ rk.keywords[1].frequency = rk.keywords[2].frequency
    /\ \E i \in DOMAIN rk.words :
          /\ Len(rk.words[i]) > 3
          /\ \A r \in DOMAIN rk.keywords : rk.keywords[r].word # LowerText(rk.words[i])

\* C18 (as claimed): a completed Document has reached the final processing
\* stage and counts at least one attempt.
C18_CompletedReachedFinalStage ==
    \A i \in DOMAIN documents :
        documents[i].status = "completed" =>
            /\ documents[i].processing_status.stage = "stored"
            /\ documents[i].processing_status.attempts >= 1

\* worker w's step is store_processing_results on Document i going through
StoresResults(w, i) ==
    /\ wk[w].pc = "spr_update"
    /\ wk'[w].pc = "pd_result"
    /\ wk[w].doc_id = i

\* C19: a Document is never created completed, and a Document that is not
\* completed becomes completed only in the final store step of a run of
\* process_pdf on its file, a run that has stored the initial metadata (holds the
\* Document's id) and holds the text summary and ranked keywords of the file.
C19_CompletedOnlyByFinalStore ==
    [][\A i \in DOMAIN documents' :
          (/\ documents'[i].status = "completed"
           /\ i \in DOMAIN documents => documents[i].status # "completed") =>
              /\ i \in DOMAIN documents
              /\ \E w \in Workers :
                    /\ StoresResults(w, i)
                    /\ wk'[w].result = "data"
                    /\ documents[i].filename = CurrentFile(w)
                    /\ wk[w].processed_data # <<>>
                    /\ wk[w].processed_data[1].keywords =
                          _extract_keywords(ExtractText(FileContent(CurrentFile(w)).pages),
                                            DefaultMaxKeywords)
                    /\ documents'[i].results # <<>>]_vars

\* C19 witness: a run on a file whose Document was not completed has stored its
\* results, and the Document is completed.
C19_Witness ==
    \E w \in Workers :
        /\ wk[w].pc = "pd_result"
        /\ wk[w].result = "data"
        /\ ~wk[w].rerun
        /\ wk[w].doc_id \in DOMAIN documents
        /\ documents[wk[w].doc_id].status = "completed"

\* C20: Documents are never removed and start with an empty history; a step that
\* is a successful store_processing_results on a Document appends one entry to
\* its history and keeps the entries before it; any other step leaves its
\* history as it is.
C20_HistoryAppendOnly ==
    [][/\ DOMAIN documents \subseteq DOMAIN documents'
       /\ \A i \in DOMAIN documents' \ DOMAIN documents :
             documents'[i].processing_history = <<>>
       /\ \A i \in DOMAIN documents :
             LET old == documents[i].processing_history
                 new == documents'[i].processing_history
             IN  IF \E w \in Workers : StoresResults(w, i)
                 THEN /\ Len(new) = Len(old) + 1
                      /\ SubSeq(new, 1, Len(old)) = old
                 ELSE new = old]_vars

\* C20 witness: results were stored twice for one Document, whose history has
\* two entries.
C20_Witness ==
    \E i \in DOMAIN documents : Len(documents[i].processing_history) = 2

\* C21 (as claimed): a call of download_pdf of pdf-downloader.py that returned
\* True on a response whose content type is not a PDF's has warned about it, and
\* the file is written.
C21_WarnsOnAnySuccessfulAttempt ==
    (/\ dl.variant = "pdf-downloader.py"
     /\ dl.pc \in {"done", "main_done"}
     /\ dl.ret = "True"
     /\ ~dl.content_pdf) =>
        /\ dl.warned
        /\ dl.file.complete

\* C22: a Document's status changes only from pending to completed; a completed
\* Document stays completed and keeps its results in every step, whatever run
\* fails, except that a successful store_processing_results on it replaces them
\* with the summary, keywords and metadata of that run.
C22_StatusOnlyPendingToCompleted ==
    [][\A i \in DOMAIN documents :
          /\ i \in DOMAIN documents'
          /\ documents'[i].status # documents[i].status =>
                /\ documents[i].status = "pending"
                /\ documents'[i].status = "completed"
          /\ documents[i].status = "completed" =>
                /\ documents'[i].status = "completed"
                /\ documents'[i].results # <<>>
                /\ \/ documents'[i].results = documents[i].results
                   \/ \E w \in Workers :
                         /\ StoresResults(w, i)
                         /\ documents'[i].results[1].summary = wk[w].processed_data[1].summary
                         /\ documents'[i].results[1].keywords = wk[w].processed_data[1].keywords
                         /\ documents'[i].results[1].metadata = wk[w].processed_data[1].metadata]_vars

\* C22 witness: a re-run of process_pdf on a file whose Document was completed
\* has failed, and the Document is completed and has results.
C22_Witness ==
    \E w \in Workers :
        /\ wk[w].pc = "pd_result"
        /\ wk[w].result = "None"
        /\ wk[w].rerun
        /\ \E i \in FindByFilename(documents, CurrentFile(w)) :
              /\ documents[i].status = "completed"
              /\ documents[i].results # <<>>

=============================================================================
